---- MODULE Spec2Model ----
(***************************************************************************)
(* NeuroPhenom-AI: the live interview session (LiveInterviewSession, in    *)
(* its three versions present in the repository) together with the part    *)
(* of App that mounts it and receives its transcript; App's session list   *)
(* and its persistence in localStorage; AnalysisView's annotations; the    *)
(* 16-bit PCM conversion of the audio both ways.                           *)
(*                                                                         *)
(* Time is counted in whole units: Date.now() and every AudioContext's     *)
(* currentTime advance together, one unit per Tick.  Texts are strings.    *)
(***************************************************************************)
EXTENDS Integers, Sequences, FiniteSets, TLC

\* ------------------------------------------------------------------ bounds
MaxTime == 2          \* Tick is disabled from this clock value on
MaxMsgs == 2          \* inbound transport messages delivered in one run
MaxStarts == 2        \* presses of the start button in one run
MaxMounts == 2        \* times App shows the ai-interview view in one run
MaxConcludes == 2     \* presses of the conclude button in one run
MaxDur == 2           \* longest decoded audio buffer
MaxBlocks == 2        \* captured audio blocks handed to onaudioprocess
MaxCalls == 3         \* calls of methods of one GeminiCachingService

Texts == {"a", "b"}   \* transcription fragment texts
Absent == "<absent>"  \* an optional field of the message that is not there
Null == "null"
NoTime == -1          \* a SpeakerSegment pushed without startTime
Malformed == -1       \* an audio payload with an odd number of bytes

\* The three versions of components/LiveInterviewSession in the repository.
Impls == {"components", "part_003", "part_004"}

Max(a, b) == IF a >= b THEN a ELSE b

VARIABLES
  impl,                          \* which version of the component is built
  \* App
  view, isAnalyzing, sessions, requests,
  \* LiveInterviewSession (the mounted instance)
  mountGen, isActive, error, sessionRef, transcriptHistoryRef,
  currentOutputTranscriptionRef, currentInputTranscriptionRef,
  currentTurnRef, nextStartTimeRef, sourcesRef, sessionStartTimeRef,
  \* environment: clock, getUserMedia calls, streams, transports, audio graph
  now, gum, streams, transports, pending, sources, nextSourceId,
  \* history: what onComplete was called with, what the transport delivered
  handed, log,
  \* counters bounding the run
  nMsgs, nStarts,
  \* App: the session shown in AnalysisView, settings, alerts shown, the
  \* mount phase, what the load effect read, localStorage, live blob URLs
  activeSession, settings, alerts, boot, loaded, store, objectUrls, nextId,
  \* AnalysisView: which version is built, its selection state, what it
  \* rendered for each transcript segment
  viewImpl, selection, dom,
  \* one audio sample on its way through createBlob and decodeAudioData
  pcm,
  \* history: the calls of sendRealtimeInput made by onaudioprocess
  blocks,
  \* GeminiCachingService: its activeCache field, the calls waiting for their
  \* remote answer, the names of the caches the remote side holds
  activeCache, inflight, caches,
  \* history of the service: remote requests sent, errors thrown to callers,
  \* whether a createCache or getCache has succeeded, calls made
  remoteCalls, raised, installed, nCalls

appVars == <<view, isAnalyzing, sessions, requests>>
transcriptVars == <<transcriptHistoryRef, currentOutputTranscriptionRef,
                    currentInputTranscriptionRef, currentTurnRef>>
audioVars == <<nextStartTimeRef, sourcesRef, sources, nextSourceId>>
compVars == <<mountGen, isActive, error, sessionRef, sessionStartTimeRef>>
envVars == <<now, gum, streams, transports, pending, blocks>>
analysisVars == <<viewImpl, activeSession, selection, dom, nextId>>
storeVars == <<boot, loaded, store, settings>>
\* What no handler of LiveInterviewSession reads or writes.
cacheVars ==
  <<activeCache, inflight, caches, remoteCalls, raised, installed, nCalls>>
offstage ==
  <<analysisVars, storeVars, alerts, objectUrls, pcm, blocks, cacheVars>>
vars == <<impl, appVars, transcriptVars, audioVars, compVars, envVars,
          handed, log, nMsgs, nStarts, offstage>>

\* LiveServerMessage, reduced to the fields onmessage reads.
Messages ==
  [audio: 0..MaxDur, out: Texts \cup {Absent}, inp: Texts \cup {Absent},
   turnComplete: BOOLEAN, interrupted: BOOLEAN]

\* Messages whose audio payload cannot be viewed as 16-bit samples.
MalformedMessages ==
  [audio: {Malformed}, out: Texts \cup {Absent}, inp: Texts \cup {Absent},
   turnComplete: BOOLEAN, interrupted: BOOLEAN]

Mounted == view = "ai-interview"

\* (Date.now() - sessionStartTimeRef.current) / 1000
Elapsed == now - sessionStartTimeRef

\* ------------------------------------------------- transcript (pure part)
\* The transcript state of the component as one record:
\*   hist = transcriptHistoryRef, out/inp = current*TranscriptionRef,
\*   turn = currentTurnRef.
Seg(speaker, text, startTime) ==
  [speaker |-> speaker, text |-> text, startTime |-> startTime]

NoTurn == [speaker |-> Null, text |-> ""]

\* part_003: finalizeTurn, with ts the elapsed time read inside it.
finalizeTurn(st, ts) ==
  IF st.turn.text = "" \/ st.turn.speaker = Null
  THEN st
  ELSE [st EXCEPT !.hist = Append(@, Seg(st.turn.speaker, st.turn.text, ts)),
                  !.turn = NoTurn]

\* part_003: updateIncrementalTranscript.
updateIncrementalTranscript(st, speaker, text, ts) ==
  IF st.turn.speaker # speaker
  THEN LET st1 == IF st.turn.speaker # Null THEN finalizeTurn(st, ts) ELSE st
       IN  [st1 EXCEPT !.turn = [speaker |-> speaker, text |-> text]]
  ELSE [st EXCEPT !.turn.text = @ \o text]

\* part_003: the transcription, turnComplete and interrupted part of onmessage.
onmessageTail003(st, m, ts) ==
  LET st1 == IF m.out # Absent
             THEN updateIncrementalTranscript(st, "AI", m.out, ts)
             ELSE IF m.inp # Absent
                  THEN updateIncrementalTranscript(st, "Interviewee", m.inp, ts)
                  ELSE st
  IN  IF m.turnComplete THEN finalizeTurn(st1, ts) ELSE st1

\* A turnComplete branch that puts the new turns in front of the old ones.
turnCompleteBranchPrepending(st, ts) ==
  LET h1 == IF st.inp # ""
            THEN <<Seg("Interviewee", st.inp, ts)>> \o st.hist ELSE st.hist
      h2 == IF st.out # ""
            THEN <<Seg("AI", st.out, ts)>> \o h1 ELSE h1
  IN  [st EXCEPT !.hist = h2, !.inp = "", !.out = ""]

\* The turnComplete branch shared by components/ and part_004: Interviewee
\* text first, then AI text, both stamped ts; then both buffers are emptied.
turnCompleteBranch(st, ts) ==
  LET h1 == IF st.inp # ""
            THEN Append(st.hist, Seg("Interviewee", st.inp, ts)) ELSE st.hist
      h2 == IF st.out # ""
            THEN Append(h1, Seg("AI", st.out, ts)) ELSE h1
  IN  [st EXCEPT !.hist = h2, !.inp = "", !.out = ""]

\* components/LiveInterviewSession.tsx: two independent ifs, then turnComplete.
onmessageTailComponents(st, m, ts) ==
  LET st1 == IF m.out # Absent THEN [st EXCEPT !.out = @ \o m.out] ELSE st
      st2 == IF m.inp # Absent THEN [st1 EXCEPT !.inp = @ \o m.inp] ELSE st1
  IN  IF m.turnComplete THEN turnCompleteBranch(st2, ts) ELSE st2

\* part_004: if / else if, and segments are pushed without startTime.
onmessageTail004(st, m) ==
  LET st1 == IF m.out # Absent THEN [st EXCEPT !.out = @ \o m.out]
             ELSE IF m.inp # Absent THEN [st EXCEPT !.inp = @ \o m.inp]
             ELSE st
  IN  IF m.turnComplete THEN turnCompleteBranch(st1, NoTime) ELSE st1

onmessageTail(st, m, ts) ==
  CASE impl = "components" -> onmessageTailComponents(st, m, ts)
    [] impl = "part_003"   -> onmessageTail003(st, m, ts)
    [] impl = "part_004"   -> onmessageTail004(st, m)

TranscriptState ==
  [hist |-> transcriptHistoryRef, out |-> currentOutputTranscriptionRef,
   inp |-> currentInputTranscriptionRef, turn |-> currentTurnRef]

SetTranscript(st) ==
  /\ transcriptHistoryRef' = st.hist
  /\ currentOutputTranscriptionRef' = st.out
  /\ currentInputTranscriptionRef' = st.inp
  /\ currentTurnRef' = st.turn

\* The fragments a message carries, in the order its fields are read, each
\* with the elapsed time of arrival; a turnComplete flag is logged after them.
LogEntry(kind, text, ts, n) ==
  [kind |-> kind, text |-> text, at |-> ts, msg |-> n]

LogOf(m, ts, n) ==
  (IF m.out # Absent THEN <<LogEntry("AI", m.out, ts, n)>> ELSE <<>>)
  \o (IF m.inp # Absent THEN <<LogEntry("Interviewee", m.inp, ts, n)>> ELSE <<>>)
  \o (IF m.turnComplete THEN <<LogEntry("turnComplete", "", ts, n)>> ELSE <<>>)

\* ------------------------------------------------------------ audio output
\* The sources of the audio graph that are scheduled or playing, each with the
\* interval of the clock it occupies.  source.start(when) on a context whose
\* currentTime is already past `when` starts the buffer at once.
StartedSource(id, when, dur, t0) ==
  LET from == t0 + Max(when, now - t0)
  IN  [id |-> id, from |-> from, to |-> from + dur, gen |-> mountGen]

\* onmessage, audio branch after the await: createBufferSource ... start(
\* nextStartTimeRef.current); nextStartTimeRef.current += duration.  part_004
\* also keeps the source in sourcesRef.  au = [nst, ref, srcs, nid].
audioBranchStart(au, dur, t0) ==
  [nst  |-> au.nst + dur,
   ref  |-> IF impl = "part_004" THEN au.ref \cup {au.nid} ELSE au.ref,
   srcs |-> au.srcs \cup {StartedSource(au.nid, au.nst, dur, t0)},
   nid  |-> au.nid + 1]

\* onmessage, interrupted branch: only part_004 has a body for it.
interruptedBranch(au) ==
  IF impl = "part_004"
  THEN [au EXCEPT !.srcs = {s \in au.srcs : s.id \notin au.ref},
                  !.ref = {}, !.nst = 0]
  ELSE au

AudioState ==
  [nst |-> nextStartTimeRef, ref |-> sourcesRef, srcs |-> sources,
   nid |-> nextSourceId]

SetAudio(au) ==
  /\ nextStartTimeRef' = au.nst
  /\ sourcesRef' = au.ref
  /\ sources' = au.srcs
  /\ nextSourceId' = au.nid

\* ------------------------------------------------------------ App (values)
\* The initial value of App's settings state.
DefaultSettings ==
  [language |-> "UK", voiceGender |-> "FEMALE", privacyContract |-> TRUE,
   interviewMode |-> "BEGINNER"]

\* startSession: the prebuilt voice put in the connect configuration.
voiceName(s) ==
  IF s.language = "UK"
  THEN (IF s.voiceGender = "MALE" THEN "Fenrir" ELSE "Zephyr")
  ELSE (IF s.voiceGender = "MALE" THEN "Puck" ELSE "Kore")

\* activeSession === null, selection === null.
NoSession ==
  [id |-> 0, type |-> Null, transcript |-> <<>>, codes |-> <<>>,
   annotations |-> <<>>, audioUrl |-> Null, transcriptText |-> "",
   from |-> <<0, 0>>]

NoSelection == [segmentIndex |-> 0, start |-> 0, end |-> 0]

\* A key of localStorage: missing (getItem gives null), or holding the string
\* JSON.stringify made of a value.  JSON.parse gives back the value: the
\* only field of a session that can be undefined is audioUrl, which is
\* dropped from the string and reads as undefined again.
MissingKey(shape) == [present |-> FALSE, json |-> shape]

JSONstringify(v) == [present |-> TRUE, json |-> v]

JSONparse(item) == item.json

NoneLoaded ==
  [sessions |-> MissingKey(<<>>), settings |-> MissingKey(DefaultSettings)]

\* A segment of analysis.transcript, and the analysis the live interview
\* specifications let analyzeInterview return.
Segment(speaker, text) == [speaker |-> speaker, text |-> text]

LiveAnalysis == <<Segment("AI", "abcde")>>

\* No sample is being converted.
NoSample ==
  [stage |-> "idle", codec |-> Null, x |-> 0, bytes |-> <<0, 0>>, y |-> 0]

\* ---------------------------------------------------- AnalysisView (render)
\* The two versions of components/AnalysisView in the repository: the file
\* under src/components renders a segment as plain text, part_006 (and the
\* last version in part_005) highlights its annotations.
ViewImpls == {"components", "part_006"}

Min(a, b) == IF a <= b THEN a ELSE b

Clamp(n, len) == Max(0, Min(n, len))

\* A substring that counts its end offset as the last character taken.
substringEndInclusive(text, a, b) ==
  LET x == Clamp(a, Len(text))
      y == Clamp(b + 1, Len(text))
  IN  SubSeq(text, Min(x, y) + 1, Max(x, y))

\* String.prototype.substring: both ends are clamped to the string and
\* swapped when they come in the wrong order.  Offsets count from 0.
substring(text, a, b) ==
  LET x == Clamp(a, Len(text))
      y == Clamp(b, Len(text))
  IN  SubSeq(text, Min(x, y) + 1, Max(x, y))

Front(s) == SubSeq(s, 1, Len(s) - 1)

\* Array.prototype.sort((a, b) => a.startOffset - b.startOffset): stable.
RECURSIVE InsertByStart(_, _)
InsertByStart(sorted, a) ==
  IF sorted = <<>> THEN <<a>>
  ELSE IF a.startOffset < sorted[1].startOffset THEN <<a>> \o sorted
  ELSE <<sorted[1]>> \o InsertByStart(Tail(sorted), a)

RECURSIVE SortByStart(_)
SortByStart(s) ==
  IF s = <<>> THEN <<>>
  ELSE InsertByStart(SortByStart(Front(s)), s[Len(s)])

\* session.codes.find(c => c.id === codeId)?.name
CodeName(session, codeId) ==
  LET hits == SelectSeq(session.codes, LAMBDA c : c.id = codeId)
  IN  IF hits = <<>> THEN Null ELSE hits[1].name

\* The children pushed to parts: a string, or a <mark> holding the annotated
\* text and a tooltip <span> holding the code's name.
TextPart(text) == [kind |-> "text", text |-> text, label |-> Null, id |-> 0]

MarkPart(text, label, id) ==
  [kind |-> "mark", text |-> text, label |-> label, id |-> id]

\* renderSegmentText, the forEach over the sorted annotations of the segment:
\* acc = [lastIndex, parts].
RECURSIVE renderParts(_, _, _, _)
renderParts(session, text, annos, acc) ==
  IF annos = <<>> THEN acc
  ELSE LET anno == annos[1]
           before ==
             IF anno.startOffset > acc.lastIndex
             THEN <<TextPart(substring(text, acc.lastIndex, anno.startOffset))>>
             ELSE <<>>
           mark == MarkPart(substring(text, anno.startOffset, anno.endOffset),
                            CodeName(session, anno.codeId), anno.id)
       IN  renderParts(session, text, Tail(annos),
                       [lastIndex |-> anno.endOffset,
                        parts |-> acc.parts \o before \o <<mark>>])

\* part_006: renderSegmentText(text, segmentIndex), as the element it returns
\* with its children.  Segments are numbered from 1 here.
renderSegmentText(session, text, segmentIndex) ==
  LET segmentAnnotations ==
        SortByStart(SelectSeq(session.annotations,
                              LAMBDA a : a.segmentIndex = segmentIndex))
  IN  IF Len(segmentAnnotations) = 0
      THEN [tag |-> "p", parts |-> <<TextPart(text)>>]
      ELSE LET acc == renderParts(session, text, segmentAnnotations,
                                  [lastIndex |-> 0, parts |-> <<>>])
               rest == IF acc.lastIndex < Len(text)
                       THEN <<TextPart(substring(text, acc.lastIndex, Len(text)))>>
                       ELSE <<>>
           IN  [tag |-> "div", parts |-> acc.parts \o rest]

\* components/AnalysisView.tsx: <p>{segment.text}</p>.
renderSegmentPlain(text) == [tag |-> "p", parts |-> <<TextPart(text)>>]

\* session.analysis?.transcript.map(...): what AnalysisView shows for each
\* segment of the session.
RenderTranscript(session) ==
  [i \in 1..Len(session.transcript) |->
     IF viewImpl = "part_006"
     THEN renderSegmentText(session, session.transcript[i].text, i)
     ELSE renderSegmentPlain(session.transcript[i].text)]

\* --------------------------------------------------------------- lifecycle
\* The state a freshly mounted LiveInterviewSession starts from (useState and
\* useRef initial values); also the state kept for the component while it is
\* not mounted.
FreshComponent ==
  /\ isActive' = FALSE
  /\ error' = Null
  /\ sessionRef' = 0
  /\ sessionStartTimeRef' = 0
  /\ SetTranscript([hist |-> <<>>, out |-> "", inp |-> "", turn |-> NoTurn])
  /\ nextStartTimeRef' = 0
  /\ sourcesRef' = {}
  /\ log' = <<>>

\* App after its first start on an empty localStorage: nothing was loaded and
\* the save effects have written the initial state.
FirstRunBooted ==
  /\ boot = "ready" /\ loaded = NoneLoaded
  /\ settings = DefaultSettings
  /\ store = [sessions |-> JSONstringify(<<>>),
              settings |-> JSONstringify(DefaultSettings)]
  /\ activeSession = NoSession /\ selection = NoSelection /\ dom = <<>>
  /\ alerts = 0 /\ objectUrls = {} /\ nextId = 1

\* this.activeCache === null
NoCache == [name |-> 0, ttl |-> Null]

\* new GeminiCachingService(apiKey)
ServiceConstructed ==
  /\ activeCache = NoCache /\ inflight = <<>>
  /\ caches = {} /\ remoteCalls = 0 /\ raised = 0 /\ installed = FALSE
  /\ nCalls = 0

\* No LiveInterviewSession was mounted yet.
NoInterviewYet ==
  /\ mountGen = 0 /\ isActive = FALSE /\ error = Null /\ sessionRef = 0
  /\ transcriptHistoryRef = <<>>
  /\ currentOutputTranscriptionRef = "" /\ currentInputTranscriptionRef = ""
  /\ currentTurnRef = NoTurn
  /\ nextStartTimeRef = 0 /\ sourcesRef = {} /\ sessionStartTimeRef = 0
  /\ now = 0 /\ gum = <<>> /\ streams = 0 /\ transports = <<>>
  /\ pending = <<>> /\ sources = {} /\ nextSourceId = 1
  /\ handed = <<>> /\ log = <<>> /\ blocks = <<>>
  /\ nMsgs = 0 /\ nStarts = 0

\* The live interview: App is at home, no interview was held yet.
Init ==
  /\ impl \in Impls
  /\ view = "home" /\ isAnalyzing = FALSE /\ sessions = <<>> /\ requests = <<>>
  /\ NoInterviewYet /\ ServiceConstructed
  /\ viewImpl = "components"
  /\ FirstRunBooted
  /\ pcm = NoSample

\* No handler is suspended at its await: a continuation runs before any
\* other callback or click is dispatched.
Idle == pending = <<>>

RemoveAt(seq, i) == SubSeq(seq, 1, i - 1) \o SubSeq(seq, i + 1, Len(seq))

\* App.handleCreateAISession: show the ai-interview view, which mounts a new
\* LiveInterviewSession.
handleCreateAISession ==
  /\ Idle /\ view = "home" /\ mountGen < MaxMounts
  /\ view' = "ai-interview"
  /\ mountGen' = mountGen + 1
  /\ FreshComponent
  /\ UNCHANGED <<impl, offstage, isAnalyzing, sessions, requests, sources, nextSourceId,
                 envVars, handed, nMsgs, nStarts>>

\* onCancel (the Terminate button) and the header logo: setView('home').  The
\* component is unmounted; nothing is closed or stopped.  From the analysis
\* view it is AnalysisView that is unmounted, and its selection state with it.
onCancel ==
  /\ Idle /\ view \in {"ai-interview", "analysis", "recorder"}
  /\ view' = "home"
  /\ FreshComponent
  /\ selection' = NoSelection /\ dom' = <<>>
  /\ UNCHANGED <<impl, mountGen, isAnalyzing, sessions, requests, sources,
                 nextSourceId, envVars, cacheVars, handed, nMsgs, nStarts, viewImpl,
                 activeSession, nextId, storeVars, alerts, objectUrls, pcm>>

\* startSession up to its first await: the start button is rendered while
\* !isActive && !error.
startSession ==
  /\ Idle /\ Mounted /\ ~isActive /\ error = Null /\ nStarts < MaxStarts
  /\ sessionStartTimeRef' = now
  /\ gum' = Append(gum, [owner |-> mountGen, t0 |-> now])
  /\ nStarts' = nStarts + 1
  /\ UNCHANGED <<impl, offstage, appVars, transcriptVars, audioVars, mountGen, isActive,
                 error, sessionRef, now, streams, transports, pending, handed,
                 log, nMsgs>>

OwnerMounted(owner) == Mounted /\ owner = mountGen

\* getUserMedia resolves: startSession goes on to ai.live.connect, which opens
\* a transport, and waits for it.
getUserMediaGranted(i) ==
  /\ Idle /\ i \in 1..Len(gum)
  /\ streams' = streams + 1
  /\ transports' = Append(transports,
       [state |-> "connecting", owner |-> gum[i].owner, t0 |-> gum[i].t0,
        voiceName |-> voiceName(settings)])
  /\ gum' = RemoveAt(gum, i)
  /\ UNCHANGED <<impl, offstage, appVars, transcriptVars, audioVars, compVars, now,
                 pending, handed, log, nMsgs, nStarts>>

\* getUserMedia rejects: the catch block of startSession.
getUserMediaDenied(i) ==
  /\ Idle /\ i \in 1..Len(gum)
  /\ gum' = RemoveAt(gum, i)
  /\ error' = IF OwnerMounted(gum[i].owner) THEN "Microphone access denied."
              ELSE error
  /\ UNCHANGED <<impl, offstage, appVars, transcriptVars, audioVars, mountGen, isActive,
                 sessionRef, sessionStartTimeRef, now, streams, transports,
                 pending, handed, log, nMsgs, nStarts>>

\* callbacks.onopen, then sessionRef.current = await sessionPromise.
onopen(t) ==
  /\ Idle /\ t \in 1..Len(transports) /\ transports[t].state = "connecting"
  /\ transports' = [transports EXCEPT ![t].state = "open"]
  /\ IF OwnerMounted(transports[t].owner)
     THEN isActive' = TRUE /\ sessionRef' = t
     ELSE UNCHANGED <<isActive, sessionRef>>
  /\ UNCHANGED <<impl, offstage, appVars, transcriptVars, audioVars, mountGen, error,
                 sessionStartTimeRef, now, gum, streams, pending, handed, log,
                 nMsgs, nStarts>>

\* callbacks.onerror: setError.  The transport delivers nothing more and will
\* close.
onerror(t) ==
  /\ Idle /\ t \in 1..Len(transports) /\ transports[t].state = "open"
  /\ transports' = [transports EXCEPT ![t].state = "errored"]
  /\ error' = IF OwnerMounted(transports[t].owner) THEN "Link Error" ELSE error
  /\ UNCHANGED <<impl, offstage, appVars, transcriptVars, audioVars, mountGen, isActive,
                 sessionRef, sessionStartTimeRef, now, gum, streams, pending,
                 handed, log, nMsgs, nStarts>>

\* callbacks.onclose: setIsActive(false).  The remote may close an open
\* transport; a transport closes after close() or after an error.
onclose(t) ==
  /\ Idle /\ t \in 1..Len(transports)
  /\ transports[t].state \in {"open", "closing", "errored"}
  /\ transports' = [transports EXCEPT ![t].state = "closed"]
  /\ isActive' = IF OwnerMounted(transports[t].owner) THEN FALSE ELSE isActive
  /\ UNCHANGED <<impl, offstage, appVars, transcriptVars, audioVars, mountGen, error,
                 sessionRef, sessionStartTimeRef, now, gum, streams, pending,
                 handed, log, nMsgs, nStarts>>

\* ---------------------------------------------------------------- messages
\* The part of onmessage after the audio branch, on transcript state st and
\* audio state au.
onmessageRest(st, au, m) ==
  /\ SetTranscript(onmessageTail(st, m, Elapsed))
  /\ SetAudio(IF m.interrupted THEN interruptedBranch(au) ELSE au)

\* callbacks.onmessage up to its await (or to its end, for a message without
\* audio).  A transport delivers while it is open and, for messages already
\* in flight, after close() was called on it.
\* Only deliveries to the mounted instance are steps: the callbacks of an
\* unmounted instance write refs and state that nothing reads any more.
onmessage(t, m) ==
  /\ Idle /\ t \in 1..Len(transports)
  /\ transports[t].state \in {"open", "closing"}
  /\ OwnerMounted(transports[t].owner)
  /\ nMsgs < MaxMsgs
  /\ nMsgs' = nMsgs + 1
  /\ log' = log \o LogOf(m, Elapsed, nMsgs + 1)
  /\ IF m.audio # 0
     THEN /\ nextStartTimeRef' = Max(nextStartTimeRef, now - transports[t].t0)
          /\ pending' = <<[t |-> t, m |-> m]>>
          /\ UNCHANGED <<transcriptVars, sourcesRef, sources, nextSourceId>>
     ELSE /\ onmessageRest(TranscriptState, AudioState, m)
          /\ UNCHANGED pending
  /\ UNCHANGED <<impl, offstage, appVars, compVars, now, gum, streams, transports,
                 handed, nStarts>>

\* callbacks.onmessage from its await on: the decoded buffer is started, then
\* the transcription, turnComplete and interrupted fields are handled.  For
\* a payload of odd length new Int16Array(data.buffer) throws inside
\* decodeAudioData: the await rethrows and the handler ends there.
onmessageResume ==
  /\ pending # <<>>
  /\ LET c == pending[1]
         au == audioBranchStart(AudioState, c.m.audio, transports[c.t].t0)
     IN  IF c.m.audio = Malformed
         THEN UNCHANGED <<transcriptVars, audioVars>>
         ELSE onmessageRest(TranscriptState, au, c.m)
  /\ pending' = <<>>
  /\ UNCHANGED <<impl, offstage, appVars, compVars, now, gum, streams, transports,
                 handed, log, nMsgs, nStarts>>

\* The transport of handed[k], if the session had one.
Concluded(t) == \E k \in 1..Len(handed) : handed[k].from[2] = t

\* scriptProcessor.onaudioprocess of the start that opened transport t: the
\* processor is connected in onopen and nothing disconnects it or stops the
\* stream, so it fires from then on.  Each block goes to sendRealtimeInput
\* of the session; the call is recorded with the state of the transport.
onaudioprocess(t) ==
  /\ t \in 1..Len(transports) /\ transports[t].state # "connecting"
  /\ Len(blocks) < MaxBlocks
  /\ blocks' = Append(blocks, [t |-> t, state |-> transports[t].state,
                               concluded |-> Concluded(t)])
  /\ UNCHANGED <<impl, appVars, transcriptVars, audioVars, compVars, now, gum,
                 streams, transports, pending, handed, log, nMsgs, nStarts,
                 analysisVars, storeVars, alerts, objectUrls, pcm, cacheVars>>

\* The clock advances by one unit, also while a handler is suspended at its
\* await.  The code reads the clock only as a difference from a value taken
\* in startSession, so the clock is left at 0 until the first start.  A source whose buffer has played to its end leaves the graph and
\* its 'ended' listener (part_004) deletes it from sourcesRef.
Tick ==
  /\ now < MaxTime /\ nStarts > 0
  /\ now' = now + 1
  /\ sources' = {s \in sources : s.to > now + 1}
  /\ sourcesRef' = {i \in sourcesRef : \E s \in sources : s.id = i /\ s.to > now + 1}
  /\ UNCHANGED <<impl, offstage, appVars, transcriptVars, nextStartTimeRef, nextSourceId,
                 compVars, gum, streams, transports, pending, handed, log,
                 nMsgs, nStarts>>

\* ------------------------------------------------------ conclude and analyse
RECURSIVE JoinLines(_)
JoinLines(lines) ==
  IF lines = <<>> THEN ""
  ELSE IF Len(lines) = 1 THEN lines[1]
  ELSE lines[1] \o "\n" \o JoinLines(Tail(lines))

\* transcript.map(t => `${t.speaker}: ${t.text}`).join('\n')
TranscriptText(transcript) ==
  JoinLines([i \in 1..Len(transcript) |->
               transcript[i].speaker \o ": " \o transcript[i].text])

\* The live session a conclude belongs to: the mounted instance and the
\* transport its sessionRef holds.
Session == <<mountGen, sessionRef>>

\* endSession (the conclude button, rendered while isActive) with the
\* onComplete it calls: App.handleAIInterviewComplete up to the await inside
\* processTranscriptionResult.
endSession ==
  /\ Idle /\ Mounted /\ isActive /\ Len(handed) < MaxConcludes
  /\ LET st == IF impl = "part_003" THEN finalizeTurn(TranscriptState, Elapsed)
               ELSE TranscriptState
         transcript == st.hist
     IN  /\ handed' = Append(handed, [transcript |-> transcript, from |-> Session])
         /\ transports' =
              IF sessionRef # 0 /\ transports[sessionRef].state = "open"
              THEN [transports EXCEPT ![sessionRef].state = "closing"]
              ELSE transports
         /\ IF Len(transcript) = 0
            THEN /\ view' = "home"
                 /\ FreshComponent
                 /\ UNCHANGED <<isAnalyzing, requests>>
            ELSE /\ isAnalyzing' = TRUE
                 /\ requests' = Append(requests,
                      [transcriptText |-> TranscriptText(transcript),
                       type |-> "AI_INTERVIEW", audioUrl |-> Null,
                       from |-> Session])
                 /\ SetTranscript(st)
                 /\ UNCHANGED <<view, isActive, error, sessionRef,
                                sessionStartTimeRef, nextStartTimeRef,
                                sourcesRef, log>>
  /\ UNCHANGED <<impl, offstage, sessions, mountGen, sources, nextSourceId, now, gum,
                 streams, pending, nMsgs, nStarts>>

\* services/geminiService.analyzeInterview from its await on: the call is
\* rejected, or it resolves with a response whose text is empty or is the
\* JSON of an analysis.  It throws in the first two cases.
Rejected == [status |-> "rejected", text |-> "", analysis |-> <<>>]

EmptyResponse == [status |-> "resolved", text |-> "", analysis |-> <<>>]

Resolved(a) == [status |-> "resolved", text |-> "json", analysis |-> a]

Throws == [ok |-> FALSE, analysis |-> <<>>]

\* An analyzeInterview without the check for an empty response text.
analyzeInterviewUnchecked(response) ==
  IF response.status = "rejected" THEN Throws
  ELSE [ok |-> TRUE, analysis |-> response.analysis]

analyzeInterview(response) ==
  IF response.status = "rejected" THEN Throws
  ELSE IF response.text = "" THEN Throws
  ELSE [ok |-> TRUE, analysis |-> response.analysis]

\* The save effect of App for the session list, run after a render in which
\* sessions changed.
SaveSessions(ss) == store' = [store EXCEPT !.sessions = JSONstringify(ss)]

\* processTranscriptionResult from its await on, for the i-th pending call:
\* the rest of the try block or the catch (alert), then the finally.  The
\* view that was shown is replaced by AnalysisView when a session is created.
processTranscriptionResultResume(i, response) ==
  LET result == analyzeInterview(response)
      newSession == [id |-> nextId,
                     type |-> requests[i].type,
                     transcript |-> result.analysis,
                     codes |-> <<>>,
                     annotations |-> <<>>,
                     audioUrl |-> requests[i].audioUrl,
                     transcriptText |-> requests[i].transcriptText,
                     from |-> requests[i].from]
  IN  /\ Idle /\ i \in 1..Len(requests)
      /\ requests' = RemoveAt(requests, i)
      /\ isAnalyzing' = FALSE
      /\ IF result.ok
         THEN /\ sessions' = <<newSession>> \o sessions
              /\ SaveSessions(sessions')
              /\ activeSession' = newSession
              /\ nextId' = nextId + 1
              /\ view' = "analysis"
              /\ FreshComponent
              /\ selection' = IF view = "analysis" THEN selection
                            ELSE NoSelection
              /\ dom' = RenderTranscript(newSession)
              /\ UNCHANGED alerts
         ELSE /\ alerts' = alerts + 1
              /\ UNCHANGED <<view, sessions, store, activeSession, nextId,
                             selection, dom, transcriptVars, nextStartTimeRef,
                             sourcesRef, isActive, error, sessionRef,
                             sessionStartTimeRef, log>>
      /\ UNCHANGED <<impl, mountGen, sources, nextSourceId, envVars, cacheVars, handed,
                     nMsgs, nStarts, viewImpl, boot, loaded, settings,
                     objectUrls, pcm>>

\* analyzeInterview resolves with the analysis a.
analysisResolved(i, a) == processTranscriptionResultResume(i, Resolved(a))

\* analyzeInterview throws: the call was rejected or the response was empty.
analysisRejected(i) ==
  \E response \in {Rejected, EmptyResponse} :
    processTranscriptionResultResume(i, response)

\* ----------------------------------------------------------- AnalysisView
MaxIds == 4           \* ids crypto.randomUUID hands out in one run
MaxSegments == 2      \* segments of the longest transcript

CodeNames == {"k"}    \* names typed into the new-code field

\* The transcripts analyzeInterview returned for the session on show.
AnalysisTranscripts ==
  {<<Segment("AI", "abcde")>>,
   <<Segment("AI", "abc"), Segment("Me", "xy")>>}

RECURSIVE Flatten(_)
Flatten(ss) == IF ss = <<>> THEN <<>> ELSE ss[1] \o Flatten(Tail(ss))

\* A text node of the document: the segment it belongs to, the element it
\* is a child of, the <mark> it lies in (0 for none) and its characters.
TextNode(seg, parent, mark, text) ==
  [seg |-> seg, parent |-> parent, mark |-> mark, text |-> text]

NodesOfPart(seg, part) ==
  IF part.kind = "text"
  THEN <<TextNode(seg, "container", 0, part.text)>>
  ELSE <<TextNode(seg, "mark", part.id, part.text)>>
       \o (IF part.label # Null
           THEN <<TextNode(seg, "tooltip", part.id, part.label)>> ELSE <<>>)

\* The text nodes AnalysisView put into the document, in document order: for
\* each segment its speaker label, then the children of its text element.
TextNodes ==
  Flatten([i \in 1..Len(dom) |->
    <<TextNode(i, "label", 0, activeSession.transcript[i].speaker)>>
    \o Flatten([j \in 1..Len(dom[i].parts) |-> NodesOfPart(i, dom[i].parts[j])])])

\* The places a selection can begin or end: a text node and an offset into
\* its characters.
Positions(nodes) ==
  UNION {{<<n, o>> : o \in 0..Len(nodes[n].text)} : n \in 1..Len(nodes)}

\* window.getSelection(): anchor and focus.
Selection(anchor, focus) ==
  [anchorNode |-> anchor[1], anchorOffset |-> anchor[2],
   focusNode |-> focus[1], focusOffset |-> focus[2]]

isCollapsed(sel) ==
  sel.anchorNode = sel.focusNode /\ sel.anchorOffset = sel.focusOffset

\* part_006: the element commonAncestorContainer resolves to carries the
\* class segment-text-container.  One text node: its parent element.  Two
\* text nodes: the smallest element holding both, which is the segment's
\* text element unless they lie in one <mark> or not in one segment's text.
InSegmentTextContainer(sel) ==
  LET a == TextNodes[sel.anchorNode]
      f == TextNodes[sel.focusNode]
  IN  IF sel.anchorNode = sel.focusNode
      THEN a.parent = "container"
      ELSE /\ a.seg = f.seg
           /\ a.parent # "label" /\ f.parent # "label"
           /\ ~(a.mark # 0 /\ a.mark = f.mark)

AnalysisShown == boot = "ready" /\ view = "analysis" /\ activeSession.id # 0

\* handleTextSelection(segmentIndex), on mouseup over the text element of the
\* segment: the selection's focus is where the mouse was released.
handleTextSelection(segmentIndex, sel) ==
  /\ Idle /\ AnalysisShown
  /\ segmentIndex \in 1..Len(dom)
  /\ TextNodes[sel.focusNode].seg = segmentIndex
  /\ TextNodes[sel.focusNode].parent # "label"
  /\ selection' =
       IF isCollapsed(sel) THEN NoSelection
       ELSE IF viewImpl = "part_006" /\ ~InSegmentTextContainer(sel)
            THEN NoSelection
            ELSE [segmentIndex |-> segmentIndex,
                  start |-> Min(sel.anchorOffset, sel.focusOffset),
                  end |-> Max(sel.anchorOffset, sel.focusOffset)]
  /\ UNCHANGED <<impl, appVars, transcriptVars, audioVars, compVars, envVars, cacheVars,
                 handed, log, nMsgs, nStarts, viewImpl, activeSession, dom,
                 nextId, storeVars, alerts, objectUrls, pcm>>

\* App's onUpdate for AnalysisView, with the render and the save effect that
\* follow it.
\* An onUpdate that shows the updated session and leaves the list as it is.
onUpdateShownOnly(updated) ==
  /\ sessions' = sessions
  /\ activeSession' = updated
  /\ SaveSessions(sessions')
  /\ dom' = RenderTranscript(updated)

onUpdate(updated) ==
  /\ sessions' = [i \in 1..Len(sessions) |->
                    IF sessions[i].id = updated.id THEN updated ELSE sessions[i]]
  /\ activeSession' = updated
  /\ SaveSessions(sessions')
  /\ dom' = RenderTranscript(updated)

\* applyCode(codeId): a button of the selection popup, one per code.
applyCode(codeId) ==
  /\ Idle /\ AnalysisShown /\ selection # NoSelection /\ nextId <= MaxIds
  /\ \E k \in 1..Len(activeSession.codes) : activeSession.codes[k].id = codeId
  /\ LET newAnnotation ==
           [id |-> nextId,
            codeId |-> codeId,
            segmentIndex |-> selection.segmentIndex,
            startOffset |-> selection.start,
            endOffset |-> selection.end,
            text |-> substring(
                       activeSession.transcript[selection.segmentIndex].text,
                       selection.start, selection.end)]
     IN  onUpdate([activeSession EXCEPT
                     !.annotations = Append(@, newAnnotation)])
  /\ nextId' = nextId + 1
  /\ selection' = NoSelection
  /\ UNCHANGED <<impl, view, isAnalyzing, requests, transcriptVars, audioVars,
                 compVars, envVars, cacheVars, handed, log, nMsgs, nStarts, viewImpl,
                 boot, loaded, settings, alerts, objectUrls, pcm>>

\* addCode: the name typed is not blank.
addCode(newCodeName) ==
  /\ Idle /\ AnalysisShown /\ nextId <= MaxIds
  /\ onUpdate([activeSession EXCEPT
                 !.codes = Append(@, [id |-> nextId, name |-> newCodeName])])
  /\ nextId' = nextId + 1
  /\ UNCHANGED <<impl, view, isAnalyzing, requests, transcriptVars, audioVars,
                 compVars, envVars, cacheVars, handed, log, nMsgs, nStarts, viewImpl,
                 selection, boot, loaded, settings, alerts, objectUrls, pcm>>

\* A removal that compares the id with the annotations' codeId.
removeAnnotationByCode(id) ==
  /\ Idle /\ AnalysisShown
  /\ onUpdate([activeSession EXCEPT
                 !.annotations = SelectSeq(@, LAMBDA an : an.codeId # id)])
  /\ UNCHANGED <<impl, view, isAnalyzing, requests, transcriptVars, audioVars,
                 compVars, envVars, cacheVars, handed, log, nMsgs, nStarts, viewImpl,
                 selection, nextId, boot, loaded, settings, alerts,
                 objectUrls, pcm>>

\* The X of an annotation's chip, for the annotation id: the handler a render
\* made stays callable with that id after the annotation has gone.
removeAnnotation(id) ==
  /\ Idle /\ AnalysisShown
  /\ onUpdate([activeSession EXCEPT
                 !.annotations = SelectSeq(@, LAMBDA an : an.id # id)])
  /\ UNCHANGED <<impl, view, isAnalyzing, requests, transcriptVars, audioVars,
                 compVars, envVars, cacheVars, handed, log, nMsgs, nStarts, viewImpl,
                 selection, nextId, boot, loaded, settings, alerts,
                 objectUrls, pcm>>

\* A row of the session list on the home view: setActiveSession(session);
\* setView('analysis').  AnalysisView is mounted and renders the session.
openSession(k) ==
  /\ Idle /\ boot = "ready" /\ view = "home" /\ k \in 1..Len(sessions)
  /\ activeSession' = sessions[k]
  /\ view' = "analysis"
  /\ selection' = NoSelection
  /\ dom' = RenderTranscript(sessions[k])
  /\ UNCHANGED <<impl, isAnalyzing, sessions, requests, transcriptVars,
                 audioVars, compVars, envVars, cacheVars, handed, log, nMsgs, nStarts,
                 viewImpl, nextId, storeVars, alerts, objectUrls, pcm>>

\* AnalysisView showing a session that was analysed and has no codes and no
\* annotations yet.
StoredSession(id, transcript) ==
  [id |-> id, type |-> "UPLOADED", transcript |-> transcript, codes |-> <<>>,
   annotations |-> <<>>, audioUrl |-> Null, transcriptText |-> "",
   from |-> <<0, 0>>]

InitAnalysis ==
  /\ impl = "components" /\ NoInterviewYet /\ ServiceConstructed
  /\ viewImpl \in ViewImpls
  /\ view = "analysis" /\ isAnalyzing = FALSE /\ requests = <<>>
  /\ \E t \in AnalysisTranscripts :
       /\ sessions = <<StoredSession(1, t)>>
       /\ activeSession = StoredSession(1, t)
  /\ dom = RenderTranscript(activeSession)
  /\ selection = NoSelection
  /\ boot = "ready" /\ loaded = NoneLoaded /\ settings = DefaultSettings
  /\ store = [sessions |-> JSONstringify(sessions),
              settings |-> JSONstringify(DefaultSettings)]
  /\ alerts = 0 /\ objectUrls = {} /\ nextId = 2
  /\ pcm = NoSample

\* Coding a transcript: select text, apply a code, add a code, remove an
\* annotation.
NextAnalysis ==
  \/ \E i \in 1..MaxSegments :
       LET places == Positions(TextNodes)
       IN  \E anchor \in places, focus \in places :
             handleTextSelection(i, Selection(anchor, focus))
  \/ \E codeId \in 1..MaxIds : applyCode(codeId)
  \/ \E name \in CodeNames : addCode(name)
  \/ \E id \in 1..MaxIds : removeAnnotation(id)

SpecAnalysis == InitAnalysis /\ [][NextAnalysis]_vars

\* Rendering stored annotations: the session list holds one session that was
\* coded earlier, with up to MaxStoredAnnotations annotations in any order,
\* overlapping or not, each within its segment's text.
MaxStoredAnnotations == 2

StoredCode == [id |-> 2, name |-> "k"]

StoredAnnotation(id, text, startOffset, endOffset) ==
  [id |-> id, codeId |-> StoredCode.id, segmentIndex |-> 1,
   startOffset |-> startOffset, endOffset |-> endOffset,
   text |-> substring(text, startOffset, endOffset)]

Ranges(text) ==
  {r \in (0..Len(text)) \X (0..Len(text)) : r[1] < r[2]}

StoredAnnotationLists(text) ==
  UNION {{[k \in 1..n |-> StoredAnnotation(StoredCode.id + k, text,
                                            rs[k][1], rs[k][2])] :
            rs \in [1..n -> Ranges(text)]} :
         n \in 0..MaxStoredAnnotations}

InitRender ==
  /\ impl = "components" /\ NoInterviewYet /\ ServiceConstructed
  /\ viewImpl = "part_006"
  /\ view = "home" /\ isAnalyzing = FALSE /\ requests = <<>>
  /\ \E annos \in StoredAnnotationLists("abcde") :
       sessions = <<[StoredSession(1, <<Segment("AI", "abcde")>>) EXCEPT
                      !.codes = <<StoredCode>>, !.annotations = annos]>>
  /\ activeSession = NoSession /\ selection = NoSelection /\ dom = <<>>
  /\ boot = "ready" /\ loaded = NoneLoaded /\ settings = DefaultSettings
  /\ store = [sessions |-> JSONstringify(sessions),
              settings |-> JSONstringify(DefaultSettings)]
  /\ alerts = 0 /\ objectUrls = {}
  /\ nextId = StoredCode.id + MaxStoredAnnotations + 1
  /\ pcm = NoSample

NextRender ==
  \/ \E k \in 1..Len(sessions) : openSession(k)
  \/ onCancel
  \/ \E id \in 1..(StoredCode.id + MaxStoredAnnotations) : removeAnnotation(id)

SpecRender == InitRender /\ [][NextRender]_vars

\* --------------------------------------------------- App (store and sessions)
\* What a previous run left under the two keys of localStorage.
PreviousSessionLists ==
  {<<>>,
   <<StoredSession(1, <<Segment("AI", "abc")>>)>>,
   <<StoredSession(2, <<Segment("AI", "abc")>>),
     StoredSession(1, <<Segment("AI", "abcde")>>)>>}

PreviousSettings ==
  {DefaultSettings, [DefaultSettings EXCEPT !.voiceGender = "MALE"]}

PreviousStores ==
  [sessions : {MissingKey(<<>>)} \cup {JSONstringify(l) : l \in PreviousSessionLists},
   settings : {MissingKey(DefaultSettings)}
              \cup {JSONstringify(v) : v \in PreviousSettings}]

\* App is about to be mounted: its state holds the useState initial values.
InitStore ==
  /\ impl = "components" /\ NoInterviewYet /\ ServiceConstructed
  /\ viewImpl = "components"
  /\ view = "home" /\ isAnalyzing = FALSE /\ sessions = <<>> /\ requests = <<>>
  /\ activeSession = NoSession /\ selection = NoSelection /\ dom = <<>>
  /\ settings = DefaultSettings
  /\ boot = "unmounted" /\ loaded = NoneLoaded
  /\ store \in PreviousStores
  /\ alerts = 0 /\ objectUrls = {}
  /\ nextId = Cardinality(UNION {{l[k].id : k \in 1..Len(l)} :
                                   l \in PreviousSessionLists}) + 1
  /\ pcm = NoSample

\* The effects of App's first render, in the order they are declared: the
\* load effect reads both keys and queues setSessions / setSettings for the
\* keys it found; the two save effects then write the state of that first
\* render.
mountEffects ==
  /\ boot = "unmounted"
  /\ loaded' = store
  /\ store' = [sessions |-> JSONstringify(sessions),
               settings |-> JSONstringify(settings)]
  /\ boot' = "mounted"
  /\ UNCHANGED <<impl, appVars, transcriptVars, audioVars, compVars, envVars, cacheVars,
                 handed, log, nMsgs, nStarts, analysisVars, settings, alerts,
                 objectUrls, pcm>>

\* The render the load effect's updates cause, and the save effects that run
\* after it for the state that changed.
commitLoaded ==
  /\ boot = "mounted"
  /\ sessions' = IF loaded.sessions.present THEN JSONparse(loaded.sessions)
                 ELSE sessions
  /\ settings' = IF loaded.settings.present THEN JSONparse(loaded.settings)
                 ELSE settings
  /\ store' = [sessions |-> IF loaded.sessions.present
                            THEN JSONstringify(sessions') ELSE store.sessions,
               settings |-> IF loaded.settings.present
                            THEN JSONstringify(settings') ELSE store.settings]
  /\ boot' = "ready"
  /\ UNCHANGED <<impl, view, isAnalyzing, requests, transcriptVars, audioVars,
                 compVars, envVars, cacheVars, handed, log, nMsgs, nStarts, analysisVars,
                 loaded, alerts, objectUrls, pcm>>

\* SettingsMenu's onUpdate({...settings, [key]: value}) with the save effect.
updateSetting(key, value) ==
  /\ Idle /\ boot = "ready"
  /\ settings' = [settings EXCEPT ![key] = value]
  /\ store' = [store EXCEPT !.settings = JSONstringify(settings')]
  /\ UNCHANGED <<impl, appVars, transcriptVars, audioVars, compVars, envVars, cacheVars,
                 handed, log, nMsgs, nStarts, analysisVars, boot, loaded,
                 alerts, objectUrls, pcm>>

\* handleStartRecording: show the recorder.
handleStartRecording ==
  /\ Idle /\ boot = "ready" /\ view = "home"
  /\ view' = "recorder"
  /\ UNCHANGED <<impl, isAnalyzing, sessions, requests, transcriptVars,
                 audioVars, compVars, envVars, handed, log, nMsgs, nStarts,
                 offstage>>

\* handleRecordComplete up to the await inside processTranscriptionResult:
\* URL.createObjectURL makes a blob URL that keeps the recording alive.
handleRecordComplete(transcriptText) ==
  /\ Idle /\ boot = "ready" /\ view = "recorder" /\ nextId <= MaxIds
  /\ LET audioUrl == "blob:" \o ToString(nextId)
     IN  /\ objectUrls' = objectUrls \cup {audioUrl}
         /\ requests' = Append(requests,
              [transcriptText |-> transcriptText, type |-> "RECORDED",
               audioUrl |-> audioUrl, from |-> <<0, 0>>])
  /\ nextId' = nextId + 1
  /\ isAnalyzing' = TRUE
  /\ UNCHANGED <<impl, view, sessions, transcriptVars, audioVars, compVars,
                 envVars, cacheVars, handed, log, nMsgs, nStarts, viewImpl, activeSession,
                 selection, dom, storeVars, alerts, pcm>>

\* deleteSession(id) once confirm() was answered with OK, with the save
\* effect.  The trash button is part of a row of the home view.
deleteSession(id) ==
  /\ Idle /\ boot = "ready" /\ view = "home"
  /\ \E k \in 1..Len(sessions) : sessions[k].id = id
  /\ sessions' = SelectSeq(sessions, LAMBDA s : s.id # id)
  /\ SaveSessions(sessions')
  /\ activeSession' = IF activeSession.id = id THEN NoSession ELSE activeSession
  /\ UNCHANGED <<impl, view, isAnalyzing, requests, transcriptVars, audioVars,
                 compVars, envVars, cacheVars, handed, log, nMsgs, nStarts, viewImpl,
                 selection, dom, nextId, boot, loaded, settings, alerts,
                 objectUrls, pcm>>

\* App from its mount on: load and save, settings, recorded sessions, opening
\* and deleting sessions.
NextStore ==
  \/ mountEffects
  \/ commitLoaded
  \/ \E value \in {"FEMALE", "MALE"} : updateSetting("voiceGender", value)
  \/ handleStartRecording
  \/ handleRecordComplete("rec")
  \/ \E i \in 1..MaxIds : analysisResolved(i, LiveAnalysis)
  \/ \E i \in 1..MaxIds : analysisRejected(i)
  \/ \E k \in 1..MaxIds : openSession(k)
  \/ onCancel
  \/ \E id \in 1..MaxIds : deleteSession(id)

SpecStore == InitStore /\ [][NextStore]_vars

\* ------------------------------------------------------------- 16-bit PCM
PcmScale == 32768     \* the factor of createBlob and of decodeAudioData
SampleWindow == 12    \* samples taken next to each of -1, 0 and 1

\* Samples are the multiples of half a quantization step: the sample x is
\* kept as the integer x * SampleGrid.
SampleGrid == 2 * PcmScale

\* One quantization step, 1/32768, on the sample grid.
QuantizationStep == SampleGrid \div PcmScale

Samples ==
  {n \in (-SampleGrid)..SampleGrid :
     \/ n <= SampleWindow - SampleGrid
     \/ (-SampleWindow <= n /\ n <= SampleWindow)
     \/ n >= SampleGrid - SampleWindow}

\* createBlob of LiveInterviewSession (all three versions, and
\* components/StandaloneRecorder), or the createBlob of part_005.
Codecs == {"LiveInterviewSession", "part_005"}

\* The integer part of n / d, rounding towards zero, as the conversion of a
\* number to an integer does.
Trunc(n, d) == IF n >= 0 THEN n \div d ELSE -((-n) \div d)

\* Storing a number into an Int16Array: the integer part, modulo 2^16, read
\* as a signed 16-bit value.
ToInt16(v) == ((v + PcmScale) % (2 * PcmScale)) - PcmScale

\* int16[i] = data[i] * 32768
scaleLive(n) == ToInt16(Trunc(n, QuantizationStep))

\* const s = Math.max(-1, Math.min(1, data[i]));
\* int16[i] = s < 0 ? s * 0x8000 : s * 0x7FFF
scale005(n) ==
  LET s == Max(-SampleGrid, Min(SampleGrid, n))
  IN  ToInt16(IF s < 0 THEN Trunc(s, QuantizationStep)
              ELSE Trunc(s * (PcmScale - 1), SampleGrid))

\* new Uint8Array(int16.buffer): the two bytes of the value, low byte first.
BytesOf(v) ==
  LET u == v % (2 * PcmScale) IN <<u % 256, u \div 256>>

\* new Int16Array(data.buffer): the signed value of two bytes.
Int16Of(bytes) ==
  LET u == bytes[1] + 256 * bytes[2]
  IN  IF u >= PcmScale THEN u - 2 * PcmScale ELSE u

\* channelData[i] = dataInt16[i] / 32768.0, on the sample grid.
unscale(v) == v * QuantizationStep

\* A sample handed to createBlob.
InitPcm ==
  /\ impl = "components" /\ NoInterviewYet /\ ServiceConstructed
  /\ view = "home" /\ isAnalyzing = FALSE /\ sessions = <<>> /\ requests = <<>>
  /\ viewImpl = "components"
  /\ FirstRunBooted
  /\ \E n \in Samples, c \in Codecs :
       pcm = [stage |-> "sample", codec |-> c, x |-> n, bytes |-> <<0, 0>>,
              y |-> 0]

\* createBlob for one sample; base64 carries the bytes unchanged.
createBlob ==
  /\ pcm.stage = "sample"
  /\ pcm' = [pcm EXCEPT
       !.stage = "encoded",
       !.bytes = BytesOf(IF pcm.codec = "part_005" THEN scale005(pcm.x)
                         ELSE scaleLive(pcm.x))]
  /\ UNCHANGED <<impl, appVars, transcriptVars, audioVars, compVars, envVars, cacheVars,
                 handed, log, nMsgs, nStarts, analysisVars, storeVars, alerts,
                 objectUrls>>

\* decodeAudioData for the sample's two bytes.
decodeAudioData ==
  /\ pcm.stage = "encoded"
  /\ pcm' = [pcm EXCEPT !.stage = "decoded", !.y = unscale(Int16Of(pcm.bytes))]
  /\ UNCHANGED <<impl, appVars, transcriptVars, audioVars, compVars, envVars, cacheVars,
                 handed, log, nMsgs, nStarts, analysisVars, storeVars, alerts,
                 objectUrls>>

NextPcm == createBlob \/ decodeAudioData

SpecPcm == InitPcm /\ [][NextPcm]_vars

\* ---------------------------------------------------- GeminiCachingService
\* Everything outside the caching service.
besideService ==
  <<impl, appVars, transcriptVars, audioVars, compVars, envVars, handed, log,
    nMsgs, nStarts, analysisVars, storeVars, alerts, objectUrls, pcm>>

\* A method was called and runs to its first await, where its remote request
\* is on its way.
Called(op, name, ttl) ==
  /\ nCalls < MaxCalls
  /\ nCalls' = nCalls + 1
  /\ inflight' = Append(inflight, [op |-> op, name |-> name, ttl |-> ttl])
  /\ remoteCalls' = remoteCalls + 1

\* The request of inflight[i] is answered and the method goes on.
Answered(i, op) ==
  /\ i \in 1..Len(inflight) /\ inflight[i].op = op
  /\ inflight' = RemoveAt(inflight, i)

\* The catch block of a method: console.error, throw error.
Rethrown == raised' = raised + 1

\* createCache up to ai.caches.create.  The remote side names the cache; the
\* name is written as the number of the call that asked for it.
createCache(ttl) ==
  /\ Called("create", nCalls + 1, ttl)
  /\ UNCHANGED <<besideService, activeCache, caches, raised, installed>>

\* createCache from its await on: the new cache becomes the active one.
createCacheResume(i, ok) ==
  /\ Answered(i, "create")
  /\ IF ok
     THEN LET cache == [name |-> inflight[i].name, ttl |-> inflight[i].ttl]
          IN  /\ caches' = caches \cup {cache.name}
              /\ activeCache' = cache
              /\ installed' = TRUE
              /\ UNCHANGED raised
     ELSE Rethrown /\ UNCHANGED <<activeCache, caches, installed>>
  /\ UNCHANGED <<besideService, remoteCalls, nCalls>>

\* getCache up to ai.caches.get.
getCache(cacheName) ==
  /\ Called("get", cacheName, Null)
  /\ UNCHANGED <<besideService, activeCache, caches, raised, installed>>

\* getCache from its await on; the remote call fails for a name it does not
\* hold, and may fail for any name.
getCacheResume(i, ok) ==
  /\ Answered(i, "get")
  /\ ok => inflight[i].name \in caches
  /\ IF ok
     THEN /\ activeCache' = [name |-> inflight[i].name, ttl |-> "3600s"]
          /\ installed' = TRUE
          /\ UNCHANGED raised
     ELSE Rethrown /\ UNCHANGED <<activeCache, installed>>
  /\ UNCHANGED <<besideService, caches, remoteCalls, nCalls>>

\* A generateWithCache that sends its request whether a cache is active or
\* not.
generateWithCacheUnguarded ==
  /\ Called("generate", activeCache.name, Null)
  /\ UNCHANGED <<besideService, activeCache, caches, raised, installed>>

\* generateWithCache up to ai.models.generateContent, or to its throw when no
\* cache is active.
generateWithCache ==
  IF activeCache = NoCache
  THEN /\ nCalls < MaxCalls
       /\ nCalls' = nCalls + 1
       /\ raised' = raised + 1
       /\ UNCHANGED <<besideService, activeCache, caches, inflight,
                      remoteCalls, installed>>
  ELSE /\ Called("generate", activeCache.name, Null)
       /\ UNCHANGED <<besideService, activeCache, caches, raised, installed>>

\* generateWithCache from its await on.
generateWithCacheResume(i, ok) ==
  /\ Answered(i, "generate")
  /\ ok => inflight[i].name \in caches
  /\ IF ok THEN UNCHANGED raised ELSE Rethrown
  /\ UNCHANGED <<besideService, activeCache, caches, remoteCalls, nCalls,
                 installed>>

\* updateCacheExpiration(ttl) up to ai.caches.update, or to its throw.
updateCacheExpiration(ttl) ==
  IF activeCache = NoCache
  THEN /\ nCalls < MaxCalls
       /\ nCalls' = nCalls + 1
       /\ raised' = raised + 1
       /\ UNCHANGED <<besideService, activeCache, caches, inflight,
                      remoteCalls, installed>>
  ELSE /\ Called("update", activeCache.name, ttl)
       /\ UNCHANGED <<besideService, activeCache, caches, raised, installed>>

\* updateCacheExpiration from its await on: the updated cache is made active.
updateCacheExpirationResume(i, ok) ==
  /\ Answered(i, "update")
  /\ ok => inflight[i].name \in caches
  /\ IF ok
     THEN /\ activeCache' = [name |-> inflight[i].name, ttl |-> inflight[i].ttl]
          /\ UNCHANGED raised
     ELSE Rethrown /\ UNCHANGED activeCache
  /\ UNCHANGED <<besideService, caches, remoteCalls, nCalls, installed>>

\* deleteCache up to ai.caches.delete, or to its return when no cache is
\* active.
deleteCache ==
  IF activeCache = NoCache
  THEN /\ nCalls < MaxCalls
       /\ nCalls' = nCalls + 1
       /\ UNCHANGED <<besideService, activeCache, caches, inflight,
                      remoteCalls, raised, installed>>
  ELSE /\ Called("delete", activeCache.name, Null)
       /\ UNCHANGED <<besideService, activeCache, caches, raised, installed>>

\* deleteCache from its await on: this.activeCache = null, whatever it holds
\* by now.
deleteCacheResume(i, ok) ==
  /\ Answered(i, "delete")
  /\ ok => inflight[i].name \in caches
  /\ IF ok
     THEN /\ caches' = caches \ {inflight[i].name}
          /\ activeCache' = NoCache
          /\ UNCHANGED raised
     ELSE Rethrown /\ UNCHANGED <<activeCache, caches>>
  /\ UNCHANGED <<besideService, remoteCalls, nCalls, installed>>

\* A service was constructed; the application is at its home view.
InitCache ==
  /\ impl = "components" /\ NoInterviewYet /\ ServiceConstructed
  /\ view = "home" /\ isAnalyzing = FALSE /\ sessions = <<>> /\ requests = <<>>
  /\ viewImpl = "components"
  /\ FirstRunBooted
  /\ pcm = NoSample

NextCache ==
  \/ createCache("3600s")
  \/ \E name \in 1..MaxCalls : getCache(name)
  \/ generateWithCache
  \/ updateCacheExpiration("7200s")
  \/ deleteCache
  \/ \E i \in 1..MaxCalls, ok \in BOOLEAN :
       \/ createCacheResume(i, ok)
       \/ getCacheResume(i, ok)
       \/ generateWithCacheResume(i, ok)
       \/ updateCacheExpirationResume(i, ok)
       \/ deleteCacheResume(i, ok)

SpecCache == InitCache /\ [][NextCache]_vars

\* Message alphabets of the specifications below.
TurnMsgs == {m \in Messages : m.audio = 0 /\ ~m.interrupted}
AudioMsgs == {m \in Messages :
                m.out = Absent /\ m.inp = Absent /\ ~m.turnComplete}
CtlMsgs == {m \in Messages :
              m.audio <= 1 /\ m.out \in {"a", Absent} /\ m.inp = Absent
              /\ ~m.interrupted}

\* Audio payloads, well-formed or not, with and without transcription.
DecodeMsgs ==
  {m \in Messages \cup MalformedMessages :
     /\ m.audio \in {Malformed, 1} /\ m.out \in {"a", Absent}
     /\ m.inp = Absent /\ ~m.interrupted}

\* One session from mount to conclude.
SessionPath ==
  \/ handleCreateAISession
  \/ startSession
  \/ \E i \in 1..MaxStarts : getUserMediaGranted(i)
  \/ \E t \in 1..MaxStarts : onopen(t)
  \/ endSession

\* Everything else the user, the transport and the analysis call can do.
Disruptions ==
  \/ onCancel
  \/ \E i \in 1..MaxStarts : getUserMediaDenied(i)
  \/ \E t \in 1..MaxStarts : onerror(t)
  \/ \E t \in 1..MaxStarts : onclose(t)
  \/ \E i \in 1..MaxConcludes : analysisResolved(i, LiveAnalysis)
  \/ \E i \in 1..MaxConcludes : analysisRejected(i)

Delivery(M) == \E t \in 1..MaxStarts, m \in M : onmessage(t, m)

\* The whole component with every message shape.
Next ==
  SessionPath \/ Disruptions \/ Delivery(Messages) \/ onmessageResume \/ Tick

Spec == Init /\ [][Next]_vars

\* Turn assembly: sessions fed transcription fragments and turnComplete flags.
NextTurns == SessionPath \/ Delivery(TurnMsgs) \/ Tick

SpecTurns == Init /\ [][NextTurns]_vars

\* Audio output: sessions fed audio payloads and interruption flags.
NextAudio ==
  SessionPath \/ Delivery(AudioMsgs) \/ onmessageResume \/ Tick

SpecAudio == Init /\ [][NextAudio]_vars

\* Session control: every user, transport and analysis event, with the clock
\* standing still.
NextControl ==
  SessionPath \/ Disruptions \/ Delivery(CtlMsgs) \/ onmessageResume

SpecControl == Init /\ [][NextControl]_vars

\* Voices: sessions started under each pair of language and voice gender.
VoiceSettings ==
  {[DefaultSettings EXCEPT !.language = l, !.voiceGender = g] :
     l \in {"UK", "US"}, g \in {"FEMALE", "MALE"}}

InitVoice ==
  /\ impl \in Impls
  /\ view = "home" /\ isAnalyzing = FALSE /\ sessions = <<>> /\ requests = <<>>
  /\ NoInterviewYet /\ ServiceConstructed
  /\ viewImpl = "components"
  /\ boot = "ready" /\ loaded = NoneLoaded
  /\ settings \in VoiceSettings
  /\ store = [sessions |-> JSONstringify(<<>>),
              settings |-> JSONstringify(settings)]
  /\ activeSession = NoSession /\ selection = NoSelection /\ dom = <<>>
  /\ alerts = 0 /\ objectUrls = {} /\ nextId = 1
  /\ pcm = NoSample

NextVoice == SessionPath \/ Tick

SpecVoice == InitVoice /\ [][NextVoice]_vars

\* Capture: sessions with the microphone blocks their script processors send.
NextCapture ==
  \/ SessionPath
  \/ \E t \in 1..MaxStarts : onaudioprocess(t)
  \/ \E t \in 1..MaxStarts : onclose(t)
  \/ Tick

SpecCapture == Init /\ [][NextCapture]_vars

\* Decoding: sessions fed audio payloads that decode and payloads that do not.
NextDecode ==
  SessionPath \/ Delivery(DecodeMsgs) \/ onmessageResume \/ Tick

SpecDecode == Init /\ [][NextDecode]_vars

\* ======================================================= turn assembly claims
\* What the transport delivered to the mounted component is kept in log; every
\* fragment text has length 1, so a turn's text length is its fragment count.
IsFragment(e) == e.kind # "turnComplete"

Fragments(l) == SelectSeq(l, IsFragment)

RECURSIVE ConcatTexts(_)
ConcatTexts(l) == IF l = <<>> THEN "" ELSE l[1].text \o ConcatTexts(Tail(l))

\* The conclude step, and the transcript it hands to the caller.
Concluding == Len(handed') = Len(handed) + 1

HandedNow == handed'[Len(handed')].transcript

FirstConcludeOfMount == \A k \in 1..Len(handed) : handed[k].from[1] # mountGen

SameSpeaker(l) ==
  /\ l # <<>>
  /\ \A i \in 1..Len(l) : IsFragment(l[i]) /\ l[i].kind = l[1].kind

Alternating(l) ==
  /\ l # <<>>
  /\ \A i \in 1..Len(l) : IsFragment(l[i])
  /\ \A i \in 1..(Len(l) - 1) : l[i].kind # l[i + 1].kind

\* No message carried two fragments, so the fragments have an arrival order.
OneFragmentPerMessage(l) ==
  \A i, j \in 1..Len(l) :
    (i < j /\ IsFragment(l[i]) /\ IsFragment(l[j])) => l[i].msg # l[j].msg

\* The position in the log of the n-th fragment of a speaker.
FragmentIndex(l, speaker, n) ==
  CHOOSE p \in 1..Len(l) :
    /\ l[p].kind = speaker
    /\ Cardinality({q \in 1..p : l[q].kind = speaker}) = n

RECURSIVE CharsBefore(_, _, _)
CharsBefore(hist, i, speaker) ==
  IF i <= 1 THEN 0
  ELSE CharsBefore(hist, i - 1, speaker)
       + (IF hist[i - 1].speaker = speaker THEN Len(hist[i - 1].text) ELSE 0)

\* The log position of the first fragment of the i-th finalized turn: the
\* turns of one speaker consume that speaker's fragments in arrival order.
Began(hist, l, i) ==
  FragmentIndex(l, hist[i].speaker, CharsBefore(hist, i, hist[i].speaker) + 1)

\* C1: a non-empty run of fragments of one speaker, with no turnComplete,
\* concluded: the caller is handed exactly one turn, of that speaker, whose
\* text is the concatenation of the fragment texts in arrival order.
C1_SingleSpeakerOneTurn ==
  [][(Concluding /\ FirstConcludeOfMount /\ SameSpeaker(log))
       => /\ Len(HandedNow) = 1
          /\ HandedNow[1].speaker = log[1].kind
          /\ HandedNow[1].text = ConcatTexts(log)]_vars

\* C2: the finalized turns are in the order in which they began, that is in
\* the arrival order of their first fragments.
C2_TurnsInBeginOrder ==
  OneFragmentPerMessage(log) =>
    \A i, j \in 1..Len(transcriptHistoryRef) :
      i < j => Began(transcriptHistoryRef, log, i) < Began(transcriptHistoryRef, log, j)

\* C3: fragments whose speaker changes on every fragment, then force-finalize:
\* as many turns as fragments, with non-decreasing startTime.
C3_AlternatingOneTurnEach ==
  [][(Concluding /\ FirstConcludeOfMount /\ impl = "part_003" /\ Alternating(log))
       => /\ Len(HandedNow) = Len(log)
          /\ \A i \in 1..(Len(HandedNow) - 1) :
               HandedNow[i].startTime <= HandedNow[i + 1].startTime]_vars

\* C4: a finalized turn's startTime is the elapsed time at which its first
\* fragment arrived.
C4_StartTimeIsBeginTime ==
  (OneFragmentPerMessage(log) /\ nStarts = 1) =>
    \A i \in 1..Len(transcriptHistoryRef) :
      transcriptHistoryRef[i].startTime # NoTime =>
        transcriptHistoryRef[i].startTime
          = log[Began(transcriptHistoryRef, log, i)].at

\* ======================================================== audio output claims
\* The sources the mounted component started that are scheduled or playing.
Playing == {s \in sources : s.gen = mountGen}

\* currentTime of the output context of the session in sessionRef.
PlaybackClock == now - transports[sessionRef].t0

\* C5: the scheduled buffers of a session occupy pairwise disjoint intervals
\* in arrival order, and a buffer enqueued behind one that is still queued
\* starts exactly where that one ends.
C5_GaplessNoOverlap ==
  (Mounted /\ nStarts = 1) =>
    \A s1, s2 \in Playing :
      /\ s1.id < s2.id => s1.to <= s2.from
      /\ s2.id = s1.id + 1 => s2.from = s1.to

\* A step that handles the interrupted flag of a message.
InterruptHandled ==
  \/ \E t \in 1..MaxStarts, m \in Messages :
       m.interrupted /\ m.audio = 0 /\ onmessage(t, m)
  \/ pending # <<>> /\ pending[1].m.interrupted /\ onmessageResume

\* C6: on the interruption signal every scheduled or playing source is
\* stopped, the set of active sources is empty, and the schedule is reset so
\* that the next buffer starts at the current playback clock.
C6_InterruptStopsAndResets ==
  [][(InterruptHandled /\ nStarts = 1)
       => /\ Playing' = {}
          /\ sourcesRef' = {}
          /\ nextStartTimeRef' <= PlaybackClock']_vars

\* ===================================================== session control claims
\* The session of the mounted component has failed or its close was requested.
SessionOver ==
  /\ Mounted
  /\ \/ error # Null
     \/ sessionRef # 0 /\ transports[sessionRef].state \in {"closing", "closed"}

MessageStep ==
  \/ \E t \in 1..MaxStarts, m \in Messages : onmessage(t, m)
  \/ onmessageResume

\* C7: a message handled after the session was concluded or has failed changes
\* neither the finalized turns, nor the in-progress text, nor the schedule.
C7_LateMessagesDropped ==
  [][(SessionOver /\ nStarts = 1 /\ MessageStep)
       => UNCHANGED <<transcriptVars, nextStartTimeRef, sources>>]_vars

ResultsOf(f) ==
  Cardinality({i \in 1..Len(requests) : requests[i].from = f})
  + Cardinality({i \in 1..Len(sessions) : sessions[i].from = f})

\* C8: a live session hands its turns to the caller once, and at most one
\* analysis request and one stored session result from it.
C8_ConcludeIdempotent ==
  \A k \in 1..Len(handed) :
    /\ Cardinality({i \in 1..Len(handed) : handed[i].from = handed[k].from}) = 1
    /\ ResultsOf(handed[k].from) <= 1

\* C9: once the transport has reported an error, the session's finalized turns
\* are not handed to the caller and no analysis request is made for them.
C9_ErrorDiscardsTurns ==
  [][(Mounted /\ error = "Link Error")
       => /\ Concluding => HandedNow = <<>>
          /\ Len(requests') <= Len(requests)]_vars

OpenTransports ==
  {t \in 1..Len(transports) : transports[t].state \in {"connecting", "open"}}

\* C10: at most one transport and one microphone capture are open.
C10_OneTransportOneCapture ==
  Cardinality(OpenTransports) <= 1 /\ streams <= 1

\* ========================================================= annotation claims
\* The annotations of a segment, in the order the session lists them.
AnnotationsOf(session, i) ==
  SelectSeq(session.annotations, LAMBDA a : a.segmentIndex = i)

InBounds(a, text) ==
  0 <= a.startOffset /\ a.startOffset < a.endOffset /\ a.endOffset <= Len(text)

\* In bounds, sorted by startOffset and pairwise non-overlapping.
Renderable(annos, text) ==
  /\ \A k \in 1..Len(annos) : InBounds(annos[k], text)
  /\ \A k \in 1..(Len(annos) - 1) :
       annos[k].endOffset <= annos[k + 1].startOffset

RECURSIVE SpanTexts(_)
SpanTexts(parts) ==
  IF parts = <<>> THEN "" ELSE parts[1].text \o SpanTexts(Tail(parts))

\* C11: a segment whose N annotations are in bounds, non-overlapping and
\* sorted is rendered as at most 2N+1 spans, as the one plain span of the
\* whole text when N = 0, and the span texts concatenated give the segment
\* text.  A span's text is the text it covers; a highlighted span also shows
\* its code's name in a tooltip.
C11_RenderPartition ==
  (AnalysisShown /\ viewImpl = "part_006") =>
    \A i \in 1..Len(dom) :
      LET text == activeSession.transcript[i].text
          annos == AnnotationsOf(activeSession, i)
      IN  Renderable(annos, text) =>
            /\ Len(dom[i].parts) <= 2 * Len(annos) + 1
            /\ Len(annos) = 0 => dom[i].parts = <<TextPart(text)>>
            /\ SpanTexts(dom[i].parts) = text

\* Two annotations with text before, between and after them: 2N+1 spans.
C11_Witness ==
  /\ AnalysisShown /\ viewImpl = "part_006"
  /\ \E i \in 1..Len(dom) :
       /\ Len(AnnotationsOf(activeSession, i)) = 2
       /\ Renderable(AnnotationsOf(activeSession, i),
                     activeSession.transcript[i].text)
       /\ Len(dom[i].parts) = 5

\* C12: every annotation stored in a session lies within the text of its
\* segment and is not empty: 0 <= startOffset < endOffset <= length of the
\* segment's text.
C12_AnnotationRange ==
  \A k \in 1..Len(sessions) :
    \A j \in 1..Len(sessions[k].annotations) :
      LET a == sessions[k].annotations[j]
      IN  /\ a.segmentIndex \in 1..Len(sessions[k].transcript)
          /\ InBounds(a, sessions[k].transcript[a.segmentIndex].text)

\* The ids that annotations, codes and sessions of a run can carry.
Ids == 1..(MaxIds + MaxStoredAnnotations)

\* The positions of the list l whose annotation does not carry the id.
Kept(l, id) == {j \in 1..Len(l) : l[j].id # id}

\* C13: removing the annotation id leaves exactly the other annotations, in
\* their order and with their fields, in the session shown and in the session
\* list, and leaves the codes alone; when no annotation carries the id,
\* nothing changes.
C13_RemoveExactlyThat ==
  [][\A id \in Ids :
       removeAnnotation(id) =>
         LET old == activeSession.annotations
             new == activeSession'.annotations
         IN  /\ Len(new) = Cardinality(Kept(old, id))
             /\ \A j \in Kept(old, id) :
                  new[Cardinality({i \in 1..j : i \in Kept(old, id)})] = old[j]
             /\ activeSession'.codes = activeSession.codes
             /\ activeSession'.transcript = activeSession.transcript
             /\ \A k \in 1..Len(sessions) :
                  sessions'[k] = IF sessions[k].id = activeSession.id
                                 THEN activeSession' ELSE sessions[k]
             /\ Kept(old, id) = 1..Len(old) =>
                  UNCHANGED <<sessions, activeSession, store>>]_vars

\* The first of two stored annotations has been removed.
C13_Witness ==
  /\ AnalysisShown
  /\ Len(activeSession.annotations) = 1
  /\ activeSession.annotations[1].id = StoredCode.id + 2
  /\ sessions[1].annotations = activeSession.annotations

\* ============================================================== store claims
\* C14: what a previous run stored is never replaced in the store by the
\* initial state of App while it differs from it, and once App has loaded,
\* each key of the store holds the value in memory.
C14_StoreFollowsMemory ==
  /\ boot = "mounted" =>
       /\ (loaded.sessions.present /\ JSONparse(loaded.sessions) # <<>>)
            => store.sessions # JSONstringify(<<>>)
       /\ (loaded.settings.present
            /\ JSONparse(loaded.settings) # DefaultSettings)
            => store.settings # JSONstringify(DefaultSettings)
  /\ boot = "ready" =>
       /\ store.sessions = JSONstringify(sessions)
       /\ store.settings = JSONstringify(settings)

C16_DeleteReleasesAudio ==
  [][\A id \in Ids :
       deleteSession(id) =>
         /\ Len(sessions') = Cardinality(Kept(sessions, id))
         /\ \A j \in Kept(sessions, id) :
              sessions'[Cardinality({i \in 1..j : i \in Kept(sessions, id)})]
                = sessions[j]
         /\ \A j \in 1..Len(sessions) :
              (sessions[j].id = id /\ sessions[j].audioUrl # Null)
                => sessions[j].audioUrl \notin objectUrls']_vars

\* ================================================================ PCM claims
Abs(n) == IF n >= 0 THEN n ELSE -n

\* C17: a sample of [-1, 1] encoded and decoded again is at most one
\* quantization step away from itself, and the 16-bit value it was encoded
\* to has not wrapped around: it has the sign of the sample.
C17_PcmRoundTrip ==
  /\ pcm.stage \in {"encoded", "decoded"} =>
       /\ pcm.x > 0 => Int16Of(pcm.bytes) >= 0
       /\ pcm.x < 0 => Int16Of(pcm.bytes) <= 0
  /\ pcm.stage = "decoded" => Abs(pcm.y - pcm.x) <= QuantizationStep

\* The handler of a message with an audio payload runs to its end.
ResumeOf(m) == pending # <<>> /\ pending[1].m = m /\ onmessageResume

\* C18: a message whose audio payload is malformed schedules nothing and
\* leaves the session active and without error, its transcription and
\* turnComplete fields are handled as those of any message, and a well-formed
\* payload handled later is scheduled.
C18_MalformedAudioIsLocal ==
  [][\A m \in DecodeMsgs :
       ResumeOf(m) =>
         IF m.audio = Malformed
         THEN /\ UNCHANGED <<sources, sourcesRef, isActive, error>>
              /\ TranscriptState' = onmessageTail(TranscriptState, m, Elapsed)
         ELSE Cardinality(sources') = Cardinality(sources) + 1]_vars

IsPrefix(s, t) == Len(s) <= Len(t) /\ SubSeq(t, 1, Len(s)) = s

SameInstance == Mounted /\ Mounted' /\ mountGen' = mountGen

\* C19: while one live session component stays mounted, every step leaves the
\* finalized turns where they are, with their speaker, text and startTime, and
\* can only add turns after them.
C19_TurnsAppendOnly ==
  [][SameInstance => IsPrefix(transcriptHistoryRef, transcriptHistoryRef')]_vars

\* Turns were finalized on top of turns finalized earlier.
C19_Witness ==
  /\ Mounted /\ isActive /\ Len(transcriptHistoryRef) >= 3
  /\ transcriptHistoryRef[1].speaker # transcriptHistoryRef[2].speaker

\* The mounted session component shows the error of a denied microphone.
Denied == Mounted /\ error = "Microphone access denied."

\* The permission request i of the mounted component is rejected.
DenialOf(i) ==
  i \in 1..Len(gum) /\ OwnerMounted(gum[i].owner) /\ getUserMediaDenied(i)

\* C20: a denied microphone permission puts the error on screen and opens no
\* transport, and a component showing that error is not active.
C20_DeniedStaysFailed ==
  /\ [](Denied => ~isActive)
  /\ [][\A i \in 1..MaxStarts :
          DenialOf(i) => Denied' /\ transports' = transports]_vars

\* ============================================================ voice claims
\* The voice table of the architecture notes.
DocumentedVoice(s) ==
  IF s.language = "UK"
  THEN (IF s.voiceGender = "MALE" THEN "Charon" ELSE "Puck")
  ELSE (IF s.voiceGender = "MALE" THEN "Kore" ELSE "Aoede")

\* C21: every transport was connected with the voice the documented table
\* gives for the language and voice gender of the settings.
C21_VoiceTable ==
  \A t \in 1..Len(transports) :
    transports[t].voiceName = DocumentedVoice(settings)

\* ========================================================= dispatch claims
RECURSIVE TextLength(_)
TextLength(turns) ==
  IF turns = <<>> THEN 0 ELSE Len(turns[1].text) + TextLength(Tail(turns))

\* The number of characters the transcript holds, finalized or in progress.
TranscriptChars ==
  TextLength(transcriptHistoryRef) + Len(currentOutputTranscriptionRef)
    + Len(currentInputTranscriptionRef) + Len(currentTurnRef.text)

BothFragments == {m \in TurnMsgs : m.out # Absent /\ m.inp # Absent}

\* C22: a message carrying an output and an input transcription fragment
\* adds the text of both fragments to the transcript.
C22_AllFieldsHandled ==
  [][\A t \in 1..MaxStarts, m \in BothFragments :
       onmessage(t, m) =>
         TranscriptChars' = TranscriptChars + Len(m.out) + Len(m.inp)]_vars

\* ======================================================= controller claims
\* The controller states as the component shows them.
Active == Mounted /\ isActive
Failed == Mounted /\ error # Null
Connecting ==
  /\ Mounted /\ ~isActive /\ error = Null
  /\ \/ \E i \in 1..Len(gum) : gum[i].owner = mountGen
     \/ \E t \in 1..Len(transports) :
          transports[t].owner = mountGen /\ transports[t].state = "connecting"

\* C23: the session is never active and failed at once, it becomes active
\* only from connecting, and a failed session stays failed and inactive as
\* long as its component is mounted.
C23_ControllerStates ==
  /\ [](~(Active /\ Failed))
  /\ [][(SameInstance /\ ~isActive /\ isActive') => Connecting]_vars
  /\ [][(SameInstance /\ Failed) => (Failed' /\ ~isActive')]_vars

\* ========================================================= schedule claims
\* The handler of a well-formed audio payload, without the interrupted flag,
\* goes on from its await: the decoded buffer is enqueued.
Enqueue ==
  /\ pending # <<>> /\ pending[1].m.audio > 0 /\ ~pending[1].m.interrupted
  /\ onmessageResume

\* C24: a decoded buffer is started at the later of nextStartTime and the
\* playback clock at the time it is enqueued, and nextStartTime becomes that
\* start plus the duration of the buffer.
C24_EnqueueSchedule ==
  [][Enqueue =>
       LET dur == pending[1].m.audio
           t0 == transports[pending[1].t].t0
           scheduledStart == Max(nextStartTimeRef, now - t0)
       IN  /\ \E s \in sources' \ sources :
                s.from = t0 + scheduledStart /\ s.to = s.from + dur
           /\ nextStartTimeRef' = scheduledStart + dur]_vars

\* ========================================================== capture claims
\* C25: every captured block is sent on a transport that is open and whose
\* session was not concluded, and concluding a session that has a transport
\* releases its microphone stream.
C25_CaptureOnlyWhileActive ==
  /\ [](\A k \in 1..Len(blocks) :
          blocks[k].state = "open" /\ ~blocks[k].concluded)
  /\ [][(endSession /\ sessionRef # 0) => streams' = streams - 1]_vars

\* ========================================================== restart claims
EmptyTranscript == [hist |-> <<>>, out |-> "", inp |-> "", turn |-> NoTurn]

\* C26: a session begun with the start action has no finalized turn and no
\* in-progress transcript text when it begins.
C26_StartsEmpty ==
  [][startSession => TranscriptState' = EmptyTranscript]_vars

\* ========================================================== overlap claims
RECURSIVE PlainLength(_)
PlainLength(parts) ==
  IF parts = <<>> THEN 0
  ELSE (IF parts[1].kind = "text" THEN Len(parts[1].text) ELSE 0)
         + PlainLength(Tail(parts))

\* The positions of the text that no annotation covers.
Uncovered(annos, text) ==
  {p \in 0..(Len(text) - 1) :
     \A k \in 1..Len(annos) :
       p < annos[k].startOffset \/ annos[k].endOffset <= p}

RECURSIVE LargestEnd(_)
LargestEnd(annos) ==
  IF annos = <<>> THEN 0
  ELSE Max(annos[1].endOffset, LargestEnd(Tail(annos)))

\* C27: a segment with in-bounds annotations, overlapping and nested ones
\* included, shows outside its highlighted spans only text that no annotation
\* covers, and its last span is the plain text from the largest endOffset on
\* when text is left there, a highlighted span otherwise.
C27_CursorNeverBackwards ==
  (AnalysisShown /\ viewImpl = "part_006") =>
    \A i \in 1..Len(dom) :
      LET text == activeSession.transcript[i].text
          annos == AnnotationsOf(activeSession, i)
          parts == dom[i].parts
          end == LargestEnd(annos)
      IN  (annos # <<>> /\ \A k \in 1..Len(annos) : InBounds(annos[k], text))
            => /\ PlainLength(parts) <= Cardinality(Uncovered(annos, text))
               /\ end < Len(text) =>
                    parts[Len(parts)] =
                      TextPart(substring(text, end, Len(text)))
               /\ end = Len(text) => parts[Len(parts)].kind = "mark"

\* ============================================================ coding claims
\* The session with this id as localStorage holds it.
StoredSessionOf(st, id) ==
  LET l == JSONparse(st.sessions)
  IN  l[CHOOSE k \in 1..Len(l) : l[k].id = id]

Has(seq, x) == \E k \in 1..Len(seq) : seq[k] = x

\* A step of the analysis view that changes the open session.
CodingStep ==
  /\ AnalysisShown /\ AnalysisShown'
  /\ activeSession'.id = activeSession.id /\ activeSession' # activeSession

C29_DeleteClearsOwnCache ==
  [][\A i \in 1..MaxCalls :
       /\ deleteCacheResume(i, TRUE) =>
            activeCache' = IF activeCache.name = inflight[i].name
                           THEN NoCache ELSE activeCache
       /\ deleteCacheResume(i, FALSE) => activeCache' = activeCache]_vars

NoActiveCache == activeCache = NoCache

\* C30: no cache is active initially, after a successful deleteCache and
\* after a failed createCache or getCache with no success before it; with no
\* active cache generateWithCache and updateCacheExpiration raise an error
\* and deleteCache returns, each without a remote call and with the state of
\* the service left as it was.
C30_NoActiveCacheGuards ==
  /\ [](nCalls = 0 => NoActiveCache)
  /\ [][\A i \in 1..MaxCalls :
          /\ deleteCacheResume(i, TRUE) => NoActiveCache'
          /\ (~installed /\ (\/ createCacheResume(i, FALSE)
                             \/ getCacheResume(i, FALSE))) => NoActiveCache']_vars
  /\ [][(NoActiveCache /\ (\/ generateWithCache
                           \/ updateCacheExpiration("7200s")))
          => /\ raised' = raised + 1
             /\ UNCHANGED <<activeCache, inflight, caches, remoteCalls>>]_vars
  /\ [][(NoActiveCache /\ deleteCache)
          => UNCHANGED <<activeCache, inflight, caches, remoteCalls,
                         raised>>]_vars

\* A cache was created and deleted, and a call made after that was refused.
C30_Witness ==
  /\ NoActiveCache /\ installed /\ caches = {} /\ inflight = <<>>
  /\ remoteCalls = 2 /\ raised = 1

====
